---- MODULE Spec2Model ----
(***************************************************************************)
(* Model of the duration correction of src/corrected_converter.py          *)
(* (read_ms_project_corrected).                                            *)
(*                                                                         *)
(* Numbers.  Durations and reference hours are whole numbers of hours, so  *)
(* every input is an exactly representable double and the quotient         *)
(* native_hours / mpxj_hours computed by the code is the double nearest to *)
(* the rational n/m.  Band tests on that double are modelled by exact      *)
(* cross-multiplication (the inputs are far too small for the rounding of  *)
(* the quotient to cross a band edge); the one-decimal formatting is       *)
(* modelled with the rounding of the double taken into account.            *)
(*                                                                         *)
(* Strings.  A string made of a number and a unit is the record            *)
(* [num |-> <<mantissa, decimals>>, unit |-> <<characters>>]; the empty    *)
(* string has num = <<>> and unit = <<>>.  "40.0eh" is                     *)
(* [num |-> <<400, 1>>, unit |-> <<"e","h">>].  A provenance string is     *)
(* [text |-> template, arg |-> <<tenths>>], arg = <<>> when the template   *)
(* has no hole.                                                            *)
(*                                                                         *)
(* The local variable factor is <<>> while unbound and <<n, m>> once it    *)
(* has been assigned the quotient n / m; like every Python local it keeps  *)
(* its value across iterations of the task loop.                           *)
(*                                                                         *)
(* Spec and SpecPair start where read_ms_project_corrected starts loading  *)
(* the reference table (the JVM is up, the project is read).  SpecMain     *)
(* runs main() of the three converters from the start of the process.      *)
(* SpecFmt applies format_predecessors, SpecViz prepare_gantt_data.        *)
(***************************************************************************)
EXTENDS Integers, Sequences, FiniteSets

VARIABLES pc, native_data, rows_read, tasks_seen, tasks_data, factor, exc,
          df_native, warned,
          converter, jvm, log, exit_code, summary_data,
          fmt_impl, predecessors, formatted, fmt_result,
          sheet, df, gantt

\* the rows of the reference table consumed so far, and whether the
\* warning of the except clause has been printed
loadVars == <<df_native, warned>>
\* main(): which converter runs, the JVM, the calls made to the
\* collaborators, the exit status (-1 while running), the summary sheet
mainVars == <<converter, jvm, log, exit_code, summary_data>>
\* format_predecessors: implementation, argument, the list built, the result
fmtVars == <<fmt_impl, predecessors, formatted, fmt_result>>
\* prepare_gantt_data: the frame read and the frame returned
vizVars == <<sheet, df, gantt>>

vars == <<pc, native_data, rows_read, tasks_seen, tasks_data, factor, exc,
          loadVars, mainVars, fmtVars, vizVars>>

(* ---------------- bounds of the model ---------------- *)
MaxRows == 2
MaxTasks == 1
MaxPairTasks == 2
MaxMainTasks == 3
MaxRelations == 2
MaxVizRows == 2
MaxRaw == 5
MaxRef == 30

(* ---------------- program constants ---------------- *)
HoursPerDay == 24
DayBandLow == 20
DayBandHigh == 28
ElapsedLimit == 100

(* ---------------- strings ---------------- *)
EmptyStr == [num |-> <<>>, unit |-> <<>>]

U_eh == <<"e", "h">>
U_d == <<"d">>
U_ed == <<"e", "d">>
U_h == <<"h">>
U_w == <<"w">>
U_mo == <<"m", "o">>

\* sub in s, for character sequences
Contains(s, sub) ==
  \E i \in 1..(Len(s) - Len(sub) + 1) : SubSeq(s, i, i + Len(sub) - 1) = sub

\* str(duration_obj): Java Double.toString of a whole number v is "v.0",
\* followed by the unit name
DurationStr(duration_obj) ==
  IF duration_obj = <<>> THEN EmptyStr
  ELSE [num |-> <<10 * duration_obj[1], 1>>, unit |-> duration_obj[2]]

\* 'xx' in mpxj_duration_str: the numeric part holds only digits, '.', '-'
\* and 'E', so a lower-case pattern can only match inside the unit name
StrContains(str, sub) == Contains(str.unit, sub)

(* ---------------- one-decimal formatting ---------------- *)
RECURSIVE FloorLog2(_, _)
\* floor(log2(a / b)) for a > 0, b > 0
FloorLog2(a, b) ==
  IF a >= b THEN (IF a >= 2 * b THEN 1 + FloorLog2(a, 2 * b) ELSE 0)
  ELSE FloorLog2(2 * a, b) - 1

\* 2^k mod 5
Pow2Mod5(k) == <<1, 2, 4, 3>>[(k % 4) + 1]

\* The double nearest to odd/20 (odd not a multiple of 5) is above it
\* exactly when the 53-bit significand was rounded up.
DoubleIsAbove(odd) ==
  LET e == FloorLog2(odd, 20)
      rem == ((odd % 5) * Pow2Mod5(50 - e)) % 5
  IN rem >= 3

\* truncation instead of rounding
FormatFixed1_Truncated(n, m) == (10 * n) \div m

\* f"{n/m:.1f}" as a number of tenths, n >= 0, m > 0: the double nearest to
\* n/m, rounded to one decimal correctly (ties of an exact double to even)
FormatFixed1(n, m) ==
  LET q == (10 * n) \div m
      r == (10 * n) % m
  IN IF 2 * r < m THEN q
     ELSE IF 2 * r > m THEN q + 1
     ELSE IF (2 * q + 1) % 5 = 0 THEN (IF q % 2 = 0 THEN q ELSE q + 1)
     ELSE IF DoubleIsAbove(2 * q + 1) THEN q + 1 ELSE q

\* f"{hours:.0f}h"
HoursStr_NoDecimal(hours) == [num |-> <<hours, 0>>, unit |-> U_h]

\* f"{hours:.1f}h"
HoursStr(hours) == [num |-> <<FormatFixed1(hours, 1), 1>>, unit |-> U_h]

(* ---------------- provenance strings ---------------- *)
Plain(text) == [text |-> text, arg |-> <<>>]
SRC_MPXJ == Plain("MPXJ")
SRC_X24 == Plain("MPXJ corregido (x24)")
SRC_FIXED == Plain("Nativo (corregido)")
SRC_VALID == Plain("MPXJ (validado)")
SRC_ZERO == Plain("Nativo (MPXJ=0)")
SuspectText == "Nativo (factor {:.1f}x)"
\* the factor left out of the text
SRC_SUSPECT_NoFactor(n, m) == [text |-> SuspectText, arg |-> <<>>]
SRC_SUSPECT(n, m) == [text |-> SuspectText, arg |-> <<FormatFixed1(n, m)>>]

(* ---------------- the decision ---------------- *)
\* -1 as the value of an absent duration
MpxjHours_Sentinel(duration_obj) ==
  IF duration_obj = <<>> THEN -1
  ELSE IF StrContains(DurationStr(duration_obj), <<"e", "h">>) THEN duration_obj[1]
  ELSE IF StrContains(DurationStr(duration_obj), <<"d">>) THEN duration_obj[1] * HoursPerDay
  ELSE 0

\* working hours counted like elapsed hours
MpxjHours_PlainHours(duration_obj) ==
  IF duration_obj = <<>> THEN 0
  ELSE IF StrContains(DurationStr(duration_obj), <<"h">>) THEN duration_obj[1]
  ELSE IF StrContains(DurationStr(duration_obj), <<"d">>) THEN duration_obj[1] * HoursPerDay
  ELSE 0

\* mpxj_hours
MpxjHours(duration_obj) ==
  IF duration_obj = <<>> THEN 0
  ELSE IF StrContains(DurationStr(duration_obj), <<"e", "h">>) THEN duration_obj[1]
  ELSE IF StrContains(DurationStr(duration_obj), <<"d">>) THEN duration_obj[1] * HoursPerDay
  ELSE 0

\* >= for >
RawIsPositive_OrZero(mpxj_hours) == mpxj_hours >= 0

RawIsPositive(mpxj_hours) == mpxj_hours > 0

\* the upper end excluded
InDayBand_Open(native_hours, mpxj_hours) ==
  /\ DayBandLow * mpxj_hours <= native_hours
  /\ native_hours < DayBandHigh * mpxj_hours

\* 20 <= native_hours / mpxj_hours <= 28, mpxj_hours > 0
InDayBand(native_hours, mpxj_hours) ==
  /\ DayBandLow * mpxj_hours <= native_hours
  /\ native_hours <= DayBandHigh * mpxj_hours

\* the upper end excluded
InAgreeBand_Open(native_hours, mpxj_hours) ==
  /\ 4 * mpxj_hours <= 5 * native_hours
  /\ 5 * native_hours < 6 * mpxj_hours

\* 0.8 <= native_hours / mpxj_hours <= 1.2, mpxj_hours > 0
InAgreeBand(native_hours, mpxj_hours) ==
  /\ 4 * mpxj_hours <= 5 * native_hours
  /\ 5 * native_hours <= 6 * mpxj_hours

\* the limit one hour too low
NeedsScaling_OffByOne(mpxj_duration_str, mpxj_hours) ==
  StrContains(mpxj_duration_str, <<"e", "h">>) /\ mpxj_hours < ElapsedLimit - 1

\* <= for <
NeedsScaling_Inclusive(mpxj_duration_str, mpxj_hours) ==
  StrContains(mpxj_duration_str, <<"e", "h">>) /\ mpxj_hours <= ElapsedLimit

NeedsScaling(mpxj_duration_str, mpxj_hours) ==
  StrContains(mpxj_duration_str, <<"e", "h">>) /\ mpxj_hours < ElapsedLimit

\* what one iteration leaves in its locals; fac = <<>> when the iteration
\* does not assign factor
Outcome(hours, str, source, fac) ==
  [raised |-> "none", corrected_hours |-> hours,
   corrected_duration_str |-> str, duration_source |-> source, factor |-> fac]

Raise(e) ==
  [raised |-> e, corrected_hours |-> 0,
   corrected_duration_str |-> EmptyStr, duration_source |-> SRC_MPXJ,
   factor |-> <<>>]

\* the branch taken once factor = native_hours / mpxj_hours is computed
WithFactor(native_hours, mpxj_hours, mpxj_duration_str) ==
  IF InDayBand(native_hours, mpxj_hours)
  THEN Outcome(native_hours, HoursStr(native_hours), SRC_FIXED,
               <<native_hours, mpxj_hours>>)
  ELSE IF InAgreeBand(native_hours, mpxj_hours)
  THEN Outcome(mpxj_hours, mpxj_duration_str, SRC_VALID,
               <<native_hours, mpxj_hours>>)
  ELSE Outcome(native_hours, HoursStr(native_hours),
               SRC_SUSPECT(native_hours, mpxj_hours),
               <<native_hours, mpxj_hours>>)

\* with a reference entry
WithNative(native_hours, mpxj_hours, mpxj_duration_str) ==
  IF RawIsPositive(mpxj_hours)
  THEN IF mpxj_hours = 0 THEN Raise("ZeroDivisionError")
       ELSE WithFactor(native_hours, mpxj_hours, mpxj_duration_str)
  ELSE Outcome(native_hours, HoursStr(native_hours), SRC_ZERO, <<>>)

\* "MPXJ" not preset before the branches: the pass-through has no tag
WithoutNative_Untagged(mpxj_hours, mpxj_duration_str) ==
  IF NeedsScaling(mpxj_duration_str, mpxj_hours)
  THEN Outcome(mpxj_hours * HoursPerDay, HoursStr(mpxj_hours * HoursPerDay),
               SRC_X24, <<>>)
  ELSE Outcome(mpxj_hours, mpxj_duration_str, Plain(""), <<>>)

\* without a reference entry
WithoutNative(mpxj_hours, mpxj_duration_str) ==
  IF NeedsScaling(mpxj_duration_str, mpxj_hours)
  THEN Outcome(mpxj_hours * HoursPerDay, HoursStr(mpxj_hours * HoursPerDay),
               SRC_X24, <<>>)
  ELSE Outcome(mpxj_hours, mpxj_duration_str, SRC_MPXJ, <<>>)

\* task.getID() if task.getID() else 0
TaskId(id_obj) == IF id_obj = <<>> \/ id_obj = <<0>> THEN 0 ELSE id_obj[1]

CorrectDuration(task_id, duration_obj, nd) ==
  LET mpxj_duration_str == DurationStr(duration_obj)
      mpxj_hours == MpxjHours(duration_obj)
  IN IF task_id \in DOMAIN nd
     THEN WithNative(nd[task_id].native_hours, mpxj_hours, mpxj_duration_str)
     ELSE WithoutNative(mpxj_hours, mpxj_duration_str)

TaskData(task_id, duration_obj, o) ==
  [ID |-> task_id,
   Duration_Original |-> DurationStr(duration_obj),
   Duration_MPXJ_Hours |-> MpxjHours(duration_obj),
   Duration_Corrected |-> o.corrected_duration_str,
   Duration_Corrected_Hours |-> o.corrected_hours,
   Duration_Source |-> o.duration_source]

(* ---------------- the correction summary ---------------- *)
RECURSIVE SumSeq(_)
SumSeq(q) == IF q = <<>> THEN 0 ELSE Head(q) + SumSeq(Tail(q))

\* one occurrence per tag, as unique() would give
CountOf_Unique(td, source) == 1

\* tasks_df['Duration_Source'].value_counts()[source]
CountOf(td, source) ==
  Cardinality({i \in DOMAIN td : td[i].Duration_Source = source})

NoSummary ==
  [per_source |-> {}, total_tasks |-> 0, original_hours |-> 0,
   corrected_hours |-> 0, correction_factor |-> <<>>]

\* the rows of the sheet Correction_Summary: one row per distinct
\* Duration_Source with its count and f"{count/len(tasks_df)*100:.1f}%" (in
\* tenths of a percent), then the totals; correction_factor is <<>> for 'N/A'
Summary(td) ==
  LET total_original == SumSeq([i \in DOMAIN td |-> td[i].Duration_MPXJ_Hours])
      total_corrected == SumSeq([i \in DOMAIN td |-> td[i].Duration_Corrected_Hours])
  IN [per_source |->
        {[Metric |-> td[i].Duration_Source,
          Count |-> CountOf(td, td[i].Duration_Source),
          Percentage |-> FormatFixed1(100 * CountOf(td, td[i].Duration_Source), Len(td))]
           : i \in DOMAIN td},
      total_tasks |-> Len(td),
      original_hours |-> total_original,
      corrected_hours |-> total_corrected,
      correction_factor |->
        IF total_original > 0
        THEN <<FormatFixed1(total_corrected, total_original)>> ELSE <<>>]

(* ---------------- inputs ---------------- *)
Units == {U_eh, U_d, U_ed, U_h, U_w, U_mo}
\* small values, a value whose quotients tie between two decimals, the
\* 40 hours of the documented example, and both sides of the 100 hour limit
RawValues == (0..MaxRaw) \cup {4 * MaxRaw, 40, ElapsedLimit - 1, ElapsedLimit}
Durations == {<<>>} \cup (RawValues \X Units)
RefValues == 0..MaxRef
RowIds == {1}
IdObjs == {<<>>, <<1>>}

PairDurations == {<<>>, <<0, U_eh>>, <<1, U_eh>>, <<1, U_d>>}
PairRefValues == {1, 2, 20}

(* ---------------- state machine ---------------- *)
\* format_predecessors and prepare_gantt_data not running
FmtIdle ==
  /\ fmt_impl = "none"
  /\ predecessors = <<>>
  /\ formatted = <<>>
  /\ fmt_result = <<>>

\* a data frame: its columns and its rows, each row with its index label
NoFrame == [name |-> "", columns |-> {}, rows |-> <<>>]

VizIdle ==
  /\ sheet = NoFrame
  /\ df = NoFrame
  /\ gantt = NoFrame

Init ==
  /\ pc = "load"
  /\ native_data = <<>>
  /\ rows_read = 0
  /\ tasks_seen = 0
  /\ tasks_data = <<>>
  /\ factor = <<>>
  /\ exc = "none"
  /\ df_native = <<>>
  /\ warned = FALSE
  /\ converter = "corrected_converter"
  /\ jvm = "on"
  /\ log = <<"jvm_start", "read">>
  /\ exit_code = -1
  /\ summary_data = NoSummary
  /\ FmtIdle
  /\ VizIdle

\* Something raises inside the try block of lines 37-44: pd.read_excel
\* (file missing or unreadable) before any row, or anything else later (the
\* bare except also catches KeyboardInterrupt and MemoryError raised between
\* two rows, and a failing print on line 44).  The except clause prints the
\* warning and nothing else: the rows already stored stay in native_data.
ReadExcelFails ==
  /\ pc = "load"
  /\ pc' = "loop"
  /\ warned' = TRUE
  /\ rows_read' = 0
  /\ df_native' = <<>>
  /\ UNCHANGED <<native_data, tasks_seen, tasks_data, factor, exc>>
  /\ UNCHANGED <<mainVars, fmtVars, vizVars>>

\* the first row of an id kept
StoreRow_FirstWins(nd, id, h) ==
  [k \in (DOMAIN nd) \cup {id} |->
     IF k \in DOMAIN nd THEN nd[k] ELSE [native_hours |-> h]]

\* native_data[id] = {...}
StoreRow(nd, id, h) ==
  [k \in (DOMAIN nd) \cup {id} |-> IF k = id THEN [native_hours |-> h] ELSE nd[k]]

\* one iteration of the iterrows loop
LoadRow(ids, refs) ==
  /\ pc = "load"
  /\ rows_read < MaxRows
  /\ \E id \in ids, h \in refs :
       /\ native_data' = StoreRow(native_data, id, h)
       /\ df_native' = Append(df_native, [ID |-> id, hours |-> h])
  /\ rows_read' = rows_read + 1
  /\ UNCHANGED <<pc, tasks_seen, tasks_data, factor, exc, warned>>
  /\ UNCHANGED <<mainVars, fmtVars, vizVars>>

\* the table is exhausted
LoadDone ==
  /\ pc = "load"
  /\ pc' = "loop"
  /\ rows_read' = 0
  /\ df_native' = <<>>
  /\ UNCHANGED <<native_data, tasks_seen, tasks_data, factor, exc, warned>>
  /\ UNCHANGED <<mainVars, fmtVars, vizVars>>

\* task is None: continue
SkipTask(maxTasks) ==
  /\ pc = "loop"
  /\ tasks_seen < maxTasks
  /\ tasks_seen' = tasks_seen + 1
  /\ UNCHANGED <<pc, native_data, rows_read, tasks_data, factor, exc>>
  /\ UNCHANGED <<loadVars, mainVars, fmtVars, vizVars>>

\* one iteration of the task loop
ProcessTask(durs, maxTasks) ==
  /\ pc = "loop"
  /\ converter = "corrected_converter"
  /\ tasks_seen < maxTasks
  /\ \E id_obj \in IdObjs, duration_obj \in durs :
       LET task_id == TaskId(id_obj)
           o == CorrectDuration(task_id, duration_obj, native_data)
       IN IF o.raised = "none"
          THEN /\ tasks_data' = Append(tasks_data, TaskData(task_id, duration_obj, o))
               /\ tasks_seen' = tasks_seen + 1
               /\ factor' = IF o.factor = <<>> THEN factor ELSE o.factor
               /\ UNCHANGED <<pc, exc>>
          ELSE /\ pc' = "raised"
               /\ exc' = o.raised
               /\ UNCHANGED <<tasks_data, tasks_seen, factor>>
  /\ UNCHANGED <<native_data, rows_read>>
  /\ UNCHANGED <<loadVars, mainVars, fmtVars, vizVars>>

\* return tasks_data, project
ReturnTasks ==
  /\ pc = "loop"
  /\ pc' = "done"
  /\ log' = Append(log, "returned")
  /\ UNCHANGED <<native_data, rows_read, tasks_seen, tasks_data, factor, exc>>
  /\ UNCHANGED <<loadVars, converter, jvm, exit_code, summary_data, fmtVars, vizVars>>

Next ==
  \/ ReadExcelFails
  \/ LoadRow(RowIds, RefValues)
  \/ LoadDone
  \/ SkipTask(MaxTasks)
  \/ ProcessTask(Durations, MaxTasks)
  \/ ReturnTasks

Spec == Init /\ [][Next]_vars

NextPair ==
  \/ ReadExcelFails
  \/ LoadRow(RowIds, PairRefValues)
  \/ LoadDone
  \/ SkipTask(MaxPairTasks)
  \/ ProcessTask(PairDurations, MaxPairTasks)
  \/ ReturnTasks

SpecPair == Init /\ [][NextPair]_vars

(* ---------------- main() ---------------- *)
Converters == {"corrected_converter", "mpp_to_xlsx", "ms_project_converter"}
MainRowIds == {1, 2}
MainRefValues == {2, 20}

\* the test for an empty task list left out
NoTasks_Never(td) == FALSE

\* if not tasks_data
NoTasks(td) == td = <<>>

\* shutdownJVM() called without asking isJVMStarted()
ShutdownNeeded_Always(j) == TRUE

\* if jpype.isJVMStarted()
ShutdownNeeded(j) == j = "on"

InitMain ==
  /\ pc = "main"
  /\ native_data = <<>>
  /\ rows_read = 0
  /\ tasks_seen = 0
  /\ tasks_data = <<>>
  /\ factor = <<>>
  /\ exc = "none"
  /\ df_native = <<>>
  /\ warned = FALSE
  /\ converter \in Converters
  /\ jvm = "off"
  /\ log = <<>>
  /\ exit_code = -1
  /\ summary_data = NoSummary
  /\ FmtIdle
  /\ VizIdle

\* if not os.path.exists(...): sys.exit(1), before the try statement
CheckInput ==
  /\ pc = "main"
  /\ \/ /\ log' = Append(log, "input_missing")
        /\ exit_code' = 1
        /\ pc' = "exited"
     \/ /\ pc' = "setup_jvm"
        /\ UNCHANGED <<log, exit_code>>
  /\ UNCHANGED <<native_data, rows_read, tasks_seen, tasks_data, factor, exc>>
  /\ UNCHANGED <<loadVars, converter, jvm, summary_data, fmtVars, vizVars>>

\* setup_jvm(): the JVM is started unless it runs already; importing mpxj,
\* finding the JAR files or starting the JVM may raise
SetupJvm ==
  /\ pc = "setup_jvm"
  /\ \/ /\ jvm' = "on"
        /\ log' = IF jvm = "on" THEN log ELSE Append(log, "jvm_start")
        /\ pc' = "read"
        /\ UNCHANGED exc
     \/ /\ exc' = "SetupError"
        /\ pc' = "raised"
        /\ UNCHANGED <<jvm, log>>
  /\ UNCHANGED <<native_data, rows_read, tasks_seen, tasks_data, factor>>
  /\ UNCHANGED <<loadVars, converter, exit_code, summary_data, fmtVars, vizVars>>

\* project = reader.read(file_path)
ReadProject ==
  /\ pc = "read"
  /\ \/ /\ log' = Append(log, "read")
        /\ pc' = IF converter = "corrected_converter" THEN "load" ELSE "loop"
        /\ UNCHANGED exc
     \/ /\ exc' = "ReadError"
        /\ pc' = "raised"
        /\ UNCHANGED log
  /\ UNCHANGED <<native_data, rows_read, tasks_seen, tasks_data, factor>>
  /\ UNCHANGED <<loadVars, converter, jvm, exit_code, summary_data, fmtVars, vizVars>>

\* one iteration of the task loop of read_ms_project
ProcessPlainTask(durs, maxTasks) ==
  /\ pc = "loop"
  /\ converter # "corrected_converter"
  /\ tasks_seen < maxTasks
  /\ \E id_obj \in IdObjs, duration_obj \in durs :
       tasks_data' = Append(tasks_data,
                            [ID |-> TaskId(id_obj), Duration |-> DurationStr(duration_obj)])
  /\ tasks_seen' = tasks_seen + 1
  /\ UNCHANGED <<pc, native_data, rows_read, factor, exc>>
  /\ UNCHANGED <<loadVars, mainVars, fmtVars, vizVars>>

\* if not tasks_data: sys.exit(1); SystemExit is not caught by
\* "except Exception" and leaves through the finally clause
CheckTasks ==
  /\ pc = "done"
  /\ IF NoTasks(tasks_data)
     THEN /\ exit_code' = 1
          /\ pc' = "finally"
     ELSE /\ pc' = "export"
          /\ UNCHANGED exit_code
  /\ UNCHANGED <<native_data, rows_read, tasks_seen, tasks_data, factor, exc>>
  /\ UNCHANGED <<loadVars, converter, jvm, log, summary_data, fmtVars, vizVars>>

\* export_corrected_excel / export_to_xlsx is called; it returns or raises
Export ==
  /\ pc = "export"
  /\ \/ /\ log' = log \o <<"export", "exported">>
        /\ summary_data' = IF converter = "corrected_converter"
                            THEN Summary(tasks_data) ELSE summary_data
        /\ pc' = IF converter = "ms_project_converter" THEN "properties" ELSE "finally"
        /\ UNCHANGED exc
     \/ /\ log' = Append(log, "export")
        /\ exc' = "ExportError"
        /\ pc' = "raised"
        /\ UNCHANGED summary_data
  /\ UNCHANGED <<native_data, rows_read, tasks_seen, tasks_data, factor>>
  /\ UNCHANGED <<loadVars, converter, jvm, exit_code, fmtVars, vizVars>>

\* ms_project_converter prints the project properties after the export
ShowProperties ==
  /\ pc = "properties"
  /\ \/ /\ pc' = "finally"
        /\ UNCHANGED exc
     \/ /\ exc' = "PropertiesError"
        /\ pc' = "raised"
  /\ UNCHANGED <<native_data, rows_read, tasks_seen, tasks_data, factor>>
  /\ UNCHANGED <<loadVars, mainVars, fmtVars, vizVars>>

\* the handler without its sys.exit(1)
HandleException_NoExit ==
  /\ pc = "raised"
  /\ pc' = "finally"
  /\ UNCHANGED <<native_data, rows_read, tasks_seen, tasks_data, factor, exc>>
  /\ UNCHANGED <<loadVars, mainVars, fmtVars, vizVars>>

\* except Exception as e: print, sys.exit(1)
HandleException ==
  /\ pc = "raised"
  /\ exit_code' = 1
  /\ pc' = "finally"
  /\ UNCHANGED <<native_data, rows_read, tasks_seen, tasks_data, factor, exc>>
  /\ UNCHANGED <<loadVars, converter, jvm, log, summary_data, fmtVars, vizVars>>

\* finally: shut the JVM down if it is started; then the process ends with
\* the status of the pending sys.exit, 0 without one
Finally ==
  /\ pc = "finally"
  /\ IF ShutdownNeeded(jvm)
     THEN /\ jvm' = "shut"
          /\ log' = Append(log, "jvm_shutdown")
     ELSE UNCHANGED <<jvm, log>>
  /\ exit_code' = IF exit_code = -1 THEN 0 ELSE exit_code
  /\ pc' = "exited"
  /\ UNCHANGED <<native_data, rows_read, tasks_seen, tasks_data, factor, exc>>
  /\ UNCHANGED <<loadVars, converter, summary_data, fmtVars, vizVars>>

NextMain ==
  \/ CheckInput
  \/ SetupJvm
  \/ ReadProject
  \/ ReadExcelFails
  \/ LoadRow(MainRowIds, MainRefValues)
  \/ LoadDone
  \/ SkipTask(MaxMainTasks)
  \/ ProcessTask(PairDurations, MaxMainTasks)
  \/ ProcessPlainTask(PairDurations, MaxMainTasks)
  \/ ReturnTasks
  \/ CheckTasks
  \/ Export
  \/ ShowProperties
  \/ HandleException
  \/ Finally

SpecMain == InitMain /\ [][NextMain]_vars

(* ---------------- format_predecessors ---------------- *)
\* A Python string is the sequence of its pieces; '' is <<>>.
\* A relation is <<pred_task, type, lag>>: pred_task is <<>> (None) or
\* <<id_obj>> with id_obj = <<>> (getID() is None) or <<n>>; type is <<>> or
\* <<name>>; lag is <<>> or <<twice the duration, units>> with units <<>> or
\* <<name>>, so that lags of half a unit exist.
DigitText == <<"0", "1", "2", "3", "4", "5", "6", "7", "8", "9">>

RECURSIVE NatText(_)
NatText(n) ==
  IF n < 10 THEN <<DigitText[n + 1]>>
  ELSE NatText(n \div 10) \o <<DigitText[(n % 10) + 1]>>

\* str of an integer
IntText(n) == IF n < 0 THEN <<"-">> \o NatText(-n) ELSE NatText(n)

\* int(lag_value): towards zero
IntOfHalves(h) == IF h >= 0 THEN h \div 2 ELSE -((-h) \div 2)

\* task_id = pred_task.getID() if pred_task else 'Unknown', as f"{task_id}"
PredIdText(pred_task) ==
  IF pred_task = <<>> THEN <<"Unknown">>
  ELSE IF pred_task[1] = <<>> THEN <<"None">>
  ELSE IntText(pred_task[1][1])

\* str(relation.getType()) if relation.getType() else 'FS'
RelTypeText(type) == IF type = <<>> THEN <<"FS">> ELSE type

\* lag_str
LagText(lag) ==
  IF lag = <<>> \/ lag[1] = 0 THEN <<>>
  ELSE LET lag_units == IF lag[2] = <<>> THEN <<"d">> ELSE lag[2]
       IN IF lag[1] > 0
          THEN <<"+">> \o IntText(IntOfHalves(lag[1])) \o lag_units
          ELSE IntText(IntOfHalves(lag[1])) \o lag_units

\* f"{task_id}{rel_type}{lag_str}" in each of the three implementations
FormatRelation_corrected(relation) ==
  PredIdText(relation[1]) \o RelTypeText(relation[2]) \o LagText(relation[3])

FormatRelation_mpp_to_xlsx(relation) ==
  PredIdText(relation[1]) \o RelTypeText(relation[2]) \o LagText(relation[3])

FormatRelation_ms_project(relation) ==
  PredIdText(relation[1]) \o RelTypeText(relation[2]) \o LagText(relation[3])

FormatRelation(impl, relation) ==
  IF impl = "corrected_converter" THEN FormatRelation_corrected(relation)
  ELSE IF impl = "mpp_to_xlsx" THEN FormatRelation_mpp_to_xlsx(relation)
  ELSE FormatRelation_ms_project(relation)

RECURSIVE JoinText(_, _)
\* sep.join(parts)
JoinText(sep, parts) ==
  IF parts = <<>> THEN <<>>
  ELSE IF Len(parts) = 1 THEN parts[1]
  ELSE parts[1] \o <<sep>> \o JoinText(sep, Tail(parts))

PredTasks == {<<>>, <<<<>>>>, <<<<5>>>>}
RelTypes == {<<>>, <<"SS">>}
Lags == {<<>>, <<0, <<"d">>>>, <<4, <<"d">>>>, <<-3, <<"w">>>>, <<1, <<>>>>}
Relations == PredTasks \X RelTypes \X Lags

InitFmt ==
  /\ pc = "fmt_loop"
  /\ native_data = <<>>
  /\ rows_read = 0
  /\ tasks_seen = 0
  /\ tasks_data = <<>>
  /\ factor = <<>>
  /\ exc = "none"
  /\ df_native = <<>>
  /\ warned = FALSE
  /\ converter \in Converters
  /\ jvm = "on"
  /\ log = <<"jvm_start", "read">>
  /\ exit_code = -1
  /\ summary_data = NoSummary
  /\ fmt_impl = converter
  /\ predecessors = <<>>
  /\ formatted = <<>>
  /\ fmt_result = <<>>
  /\ VizIdle

\* one iteration of "for relation in predecessors"
FormatNext ==
  /\ pc = "fmt_loop"
  /\ Len(predecessors) < MaxRelations
  /\ \E relation \in Relations :
       /\ predecessors' = Append(predecessors, relation)
       /\ formatted' = Append(formatted, FormatRelation(fmt_impl, relation))
  /\ UNCHANGED <<pc, native_data, rows_read, tasks_seen, tasks_data, factor, exc>>
  /\ UNCHANGED <<loadVars, mainVars, fmt_impl, fmt_result, vizVars>>

\* return '' for no predecessors, '; '.join(formatted) after the loop
FormatReturn ==
  /\ pc = "fmt_loop"
  /\ fmt_result' = IF predecessors = <<>> THEN <<>> ELSE JoinText("; ", formatted)
  /\ pc' = "fmt_done"
  /\ UNCHANGED <<native_data, rows_read, tasks_seen, tasks_data, factor, exc>>
  /\ UNCHANGED <<loadVars, mainVars, fmt_impl, predecessors, formatted, vizVars>>

NextFmt == FormatNext \/ FormatReturn

SpecFmt == InitFmt /\ [][NextFmt]_vars

(* ---------------- prepare_gantt_data ---------------- *)
\* Cell values are texts; "NaN" is the empty cell as read_excel gives it,
\* "NaT" the missing timestamp.
NotNa(v) == v \notin {"NaN", "NaT"}

\* pd.to_datetime(v, errors='coerce') of one cell
ToDatetime(v) ==
  IF v = "2024-01-15 08:00:00" THEN "Timestamp(2024-01-15 08:00:00)"
  ELSE IF v = "2024-01-19 17:00:00" THEN "Timestamp(2024-01-19 17:00:00)"
  ELSE "NaT"

RowHasDates_NameOnly(cells) == NotNa(cells["Name"])

\* df['Start'].notna() & df['Finish'].notna() for one row
RowHasDates(cells) == NotNa(cells["Start"]) /\ NotNa(cells["Finish"])

\* the status of a row from its 'Percent Complete'
StatusOf(x) ==
  IF x >= 100 THEN "Complete" ELSE IF x > 0 THEN "In Progress" ELSE "Not Started"

\* row.get(col, 'N/A')
RowGet(cells, col) == IF col \in DOMAIN cells THEN cells[col] ELSE "N/A"

\* the hover text of a row, as the pieces of the f-strings
HoverTextOf(cells) ==
  <<"<b>", cells["Name"], "</b><br>",
    "WBS: ", RowGet(cells, "WBS"), "<br>",
    "Duration: ", RowGet(cells, "Duration"), "<br>",
    "Progress: ">> \o NatText(cells["Percent Complete"]) \o
  <<"%<br>",
    "Resources: ", RowGet(cells, "Resource Names"), "<br>",
    "Predecessors: ", RowGet(cells, "Predecessors"), "<br>">>
  \o (IF "Duration_Source" \in DOMAIN cells
      THEN <<"Source: ", cells["Duration_Source"], "<br>">> ELSE <<>>)

\* '  ' * int(row.get('Outline Level', 0)) + row['Name']
RECURSIVE Indent(_)
Indent(level) == IF level <= 0 THEN <<>> ELSE <<"  ">> \o Indent(level - 1)

DisplayNameOf(cells) ==
  Indent(IF "Outline Level" \in DOMAIN cells THEN cells["Outline Level"] ELSE 0)
  \o <<cells["Name"]>>

\* df[col] = values, one value for each row
WithColumn(frame, col, values) ==
  [frame EXCEPT
     !.columns = @ \cup {col},
     !.rows = [i \in DOMAIN @ |->
                 [@[i] EXCEPT !.cells =
                    [c \in DOMAIN @ \cup {col} |->
                       IF c = col THEN values[i] ELSE @[c]]]]]

\* df[src] as one value for each row
Column(frame, src) == [i \in DOMAIN frame.rows |-> frame.rows[i].cells[src]]

\* df[mask]: the rows the mask keeps, in order, with their index labels
SelectRows(rows) == SelectSeq(rows, LAMBDA row : RowHasDates(row.cells))

DateCells == {"NaN", "2024-01-15 08:00:00", "junk"}
PlainColumns == {"Name", "Duration", "Start", "Finish", "Percent Complete"}
CorrectedColumns ==
  {"Name", "Duration_Corrected", "Duration_Corrected_Hours", "Duration_Source",
   "Start", "Finish", "Percent Complete", "Outline Level"}
HandMadeColumns == {"Name", "Duration_Corrected", "Start", "Finish", "Percent Complete"}
Schemas == {PlainColumns, CorrectedColumns, HandMadeColumns}

\* the cells of a sheet row with the given dates
SheetCells(columns, start, finish) ==
  [c \in columns |->
     IF c = "Start" THEN start
     ELSE IF c = "Finish" THEN finish
     ELSE IF c = "Name" THEN "Task"
     ELSE IF c = "Duration" THEN "1.0d"
     ELSE IF c = "Duration_Corrected" THEN "2.0d"
     ELSE IF c = "Duration_Corrected_Hours" THEN 48
     ELSE IF c = "Duration_Source" THEN SRC_X24.text
     ELSE IF c = "Outline Level" THEN 1
     ELSE 50]

Sheets ==
  { [name |-> IF "Duration_Corrected" \in columns THEN "Tasks_Corrected" ELSE "Tasks",
     columns |-> columns,
     rows |-> [i \in 1..n |-> [index |-> i - 1,
                                cells |-> SheetCells(columns, dates[i][1], dates[i][2])]]] :
    <<columns, n, dates>> \in
      UNION { { <<cols, k, d>> : d \in [1..k -> DateCells \X DateCells] } :
              <<cols, k>> \in Schemas \X (0..MaxVizRows) } }

InitViz ==
  /\ pc = "viz_read"
  /\ native_data = <<>>
  /\ rows_read = 0
  /\ tasks_seen = 0
  /\ tasks_data = <<>>
  /\ factor = <<>>
  /\ exc = "none"
  /\ df_native = <<>>
  /\ warned = FALSE
  /\ converter = "corrected_converter"
  /\ jvm = "off"
  /\ log = <<>>
  /\ exit_code = -1
  /\ summary_data = NoSummary
  /\ FmtIdle
  /\ sheet \in Sheets
  /\ df = NoFrame
  /\ gantt = NoFrame

VizUnchanged ==
  /\ UNCHANGED <<native_data, rows_read, tasks_seen, tasks_data, factor, exc>>
  /\ UNCHANGED <<loadVars, mainVars, fmtVars, sheet>>

\* the sheet is chosen and read
ReadSheet ==
  /\ pc = "viz_read"
  /\ df' = sheet
  /\ pc' = "viz_adapt"
  /\ UNCHANGED gantt
  /\ VizUnchanged

\* the columns are adapted to the kind of file
AdaptColumns ==
  /\ pc = "viz_adapt"
  /\ df' = IF "Duration_Corrected" \in df.columns
            THEN LET copied == WithColumn(df, "Duration",
                                          Column(df, "Duration_Corrected"))
                 IN IF "Duration_Corrected_Hours" \in df.columns
                    THEN WithColumn(copied, "Duration_Hours",
                                    Column(df, "Duration_Corrected_Hours"))
                    ELSE copied
            ELSE df
  /\ pc' = "viz_filter"
  /\ UNCHANGED gantt
  /\ VizUnchanged

\* rows without dates are filtered out
FilterDates ==
  /\ pc = "viz_filter"
  /\ df' = [df EXCEPT !.rows = SelectRows(@)]
  /\ pc' = "viz_parse"
  /\ UNCHANGED gantt
  /\ VizUnchanged

\* Start and Finish are parsed, what cannot be parsed becomes NaT
ParseDates ==
  /\ pc = "viz_parse"
  /\ df' = LET start == [i \in DOMAIN df.rows |-> ToDatetime(df.rows[i].cells["Start"])]
               finish == [i \in DOMAIN df.rows |-> ToDatetime(df.rows[i].cells["Finish"])]
           IN WithColumn(WithColumn(df, "Start", start), "Finish", finish)
  /\ pc' = "viz_annotate"
  /\ UNCHANGED gantt
  /\ VizUnchanged

\* Status, HoverText and DisplayName are added
Annotate ==
  /\ pc = "viz_annotate"
  /\ df' = LET status == WithColumn(df, "Status",
                 [i \in DOMAIN df.rows |->
                    StatusOf(df.rows[i].cells["Percent Complete"])])
               hover == WithColumn(status, "HoverText",
                 [i \in DOMAIN status.rows |-> HoverTextOf(status.rows[i].cells)])
           IN WithColumn(hover, "DisplayName",
                 [i \in DOMAIN hover.rows |-> DisplayNameOf(hover.rows[i].cells)])
  /\ pc' = "viz_return"
  /\ UNCHANGED gantt
  /\ VizUnchanged

\* return df
ReturnFrame ==
  /\ pc = "viz_return"
  /\ gantt' = df
  /\ pc' = "viz_done"
  /\ UNCHANGED df
  /\ VizUnchanged

NextViz ==
  \/ ReadSheet
  \/ AdaptColumns
  \/ FilterDates
  \/ ParseDates
  \/ Annotate
  \/ ReturnFrame

SpecViz == InitViz /\ [][NextViz]_vars

(* ---------------- properties ---------------- *)
HasRef(r) == r.ID \in DOMAIN native_data
Ref(r) == native_data[r.ID].native_hours
Raw(r) == r.Duration_MPXJ_Hours
Tag(r) == r.Duration_Source.text
Recs == {tasks_data[i] : i \in DOMAIN tasks_data}
RatioInDayBand(r) == 20 * Raw(r) <= Ref(r) /\ Ref(r) <= 28 * Raw(r)
RatioInAgreeBand(r) == 8 * Raw(r) <= 10 * Ref(r) /\ 10 * Ref(r) <= 12 * Raw(r)
IsElapsedHours(r) == r.Duration_Original.unit = <<"e", "h">>
\* the text "<hours to one decimal>h"
OneDecimalHours(str, hours) ==
  /\ str.unit = <<"h">>
  /\ Len(str.num) = 2
  /\ str.num[2] = 1
  /\ 2 * (str.num[1] - 10 * hours) <= 1
  /\ 2 * (10 * hours - str.num[1]) <= 1

\* C1: a task with a reference entry, rawHours > 0 and
\* 20 <= referenceHours / rawHours <= 28 (both ends included) gets
\* correctedHours = referenceHours and the tag 'Nativo (corregido)'.
C1_DayBandAcceptsReference ==
  \A r \in Recs :
    (HasRef(r) /\ Raw(r) > 0 /\ RatioInDayBand(r))
      => /\ r.Duration_Corrected_Hours = Ref(r)
         /\ r.Duration_Source = [text |-> "Nativo (corregido)", arg |-> <<>>]

\* both ends of the band occur: factor exactly 20 or exactly 28
C1_Witness ==
  \E r \in Recs :
    /\ HasRef(r) /\ Raw(r) > 0
    /\ Ref(r) = 28 * Raw(r)
    /\ r.Duration_Corrected_Hours = Ref(r)
    /\ Tag(r) = "Nativo (corregido)"

\* C2: a task with a reference entry, rawHours > 0 and
\* 0.8 <= referenceHours / rawHours <= 1.2 (both ends included) keeps
\* rawHours and its raw duration string, with the tag 'MPXJ (validado)'.
C2_AgreeBandKeepsRaw ==
  \A r \in Recs :
    (HasRef(r) /\ Raw(r) > 0 /\ RatioInAgreeBand(r))
      => /\ r.Duration_Corrected_Hours = Raw(r)
         /\ r.Duration_Corrected = r.Duration_Original
         /\ r.Duration_Source = [text |-> "MPXJ (validado)", arg |-> <<>>]

\* the upper end of the band, with a reference that differs from the raw value
C2_Witness ==
  \E r \in Recs :
    /\ HasRef(r) /\ Raw(r) > 0
    /\ 10 * Ref(r) = 12 * Raw(r)
    /\ r.Duration_Corrected_Hours = Raw(r)
    /\ r.Duration_Corrected = r.Duration_Original
    /\ Tag(r) = "MPXJ (validado)"

\* C3: a task with a reference entry, rawHours > 0 and a factor in neither
\* band gets correctedHours = referenceHours and the suspect-factor tag, and
\* the factor shown in the tag is referenceHours / rawHours rounded to one
\* decimal place (it is within 0.05 of the true ratio).
C3_SuspectFactorReported ==
  \A r \in Recs :
    (HasRef(r) /\ Raw(r) > 0 /\ ~RatioInDayBand(r) /\ ~RatioInAgreeBand(r))
      => /\ r.Duration_Corrected_Hours = Ref(r)
         /\ Tag(r) = "Nativo (factor {:.1f}x)"
         /\ Len(r.Duration_Source.arg) = 1
         /\ LET t == r.Duration_Source.arg[1]
            IN /\ 2 * (t * Raw(r) - 10 * Ref(r)) <= Raw(r)
               /\ 2 * (10 * Ref(r) - t * Raw(r)) <= Raw(r)

\* a suspect factor that is not a whole number of tenths, rounded upwards
C3_Witness ==
  \E r \in Recs :
    /\ HasRef(r) /\ Raw(r) > 0
    /\ Tag(r) = "Nativo (factor {:.1f}x)"
    /\ r.Duration_Corrected_Hours = Ref(r)
    /\ (10 * Ref(r)) % Raw(r) # 0
    /\ r.Duration_Source.arg[1] * Raw(r) > 10 * Ref(r)

\* C4: a task with a reference entry and rawHours = 0 gets
\* correctedHours = referenceHours and the tag 'Nativo (MPXJ=0)', whatever
\* the reference is, and no division by zero is ever attempted.
C4_RawZeroAcceptsReference ==
  /\ exc # "ZeroDivisionError"
  /\ \A r \in Recs :
       (HasRef(r) /\ Raw(r) = 0)
         => /\ r.Duration_Corrected_Hours = Ref(r)
            /\ r.Duration_Source = [text |-> "Nativo (MPXJ=0)", arg |-> <<>>]

\* the largest reference of the model against a raw value of zero
C4_Witness ==
  \E r \in Recs :
    /\ HasRef(r) /\ Raw(r) = 0
    /\ Ref(r) = MaxRef
    /\ r.Duration_Corrected_Hours = MaxRef
    /\ Tag(r) = "Nativo (MPXJ=0)"

\* C5: a task without a reference entry whose unit is elapsed hours and
\* whose rawHours < 100 gets correctedHours = 24 * rawHours and the tag
\* 'MPXJ corregido (x24)'; 40 elapsed hours become 960.0 hours.
C5_ElapsedHoursScaled ==
  \A r \in Recs :
    (~HasRef(r) /\ IsElapsedHours(r) /\ Raw(r) < 100)
      => /\ r.Duration_Corrected_Hours = 24 * Raw(r)
         /\ r.Duration_Source = [text |-> "MPXJ corregido (x24)", arg |-> <<>>]
         /\ (Raw(r) = 40 => r.Duration_Corrected_Hours = 960)

\* the example of the specification: 40eh without reference gives "960.0h"
C5_Witness ==
  \E r \in Recs :
    /\ ~HasRef(r) /\ IsElapsedHours(r) /\ Raw(r) = 40
    /\ r.Duration_Corrected_Hours = 960
    /\ r.Duration_Corrected = [num |-> <<9600, 1>>, unit |-> <<"h">>]
    /\ Tag(r) = "MPXJ corregido (x24)"

\* C6: a task without a reference entry that is not (elapsed hours with
\* rawHours < 100) passes through: correctedHours = rawHours, the display
\* string is the raw string and the tag is 'MPXJ'.
C6_OtherwisePassThrough ==
  \A r \in Recs :
    (~HasRef(r) /\ ~(IsElapsedHours(r) /\ Raw(r) < 100))
      => /\ r.Duration_Corrected_Hours = Raw(r)
         /\ r.Duration_Corrected = r.Duration_Original
         /\ r.Duration_Source = [text |-> "MPXJ", arg |-> <<>>]

\* exactly 100 elapsed hours without reference are passed through
C6_Witness ==
  \E r \in Recs :
    /\ ~HasRef(r) /\ IsElapsedHours(r) /\ Raw(r) = 100
    /\ r.Duration_Corrected_Hours = 100
    /\ r.Duration_Corrected = r.Duration_Original
    /\ Tag(r) = "MPXJ"

KeepsRawTags == {"MPXJ", "MPXJ (validado)"}
FactorTags == {"Nativo (corregido)", "MPXJ (validado)", "Nativo (factor {:.1f}x)"}
ClosedTagSet ==
  {"MPXJ", "MPXJ corregido (x24)", "Nativo (corregido)", "MPXJ (validado)",
   "Nativo (factor {:.1f}x)", "Nativo (MPXJ=0)"}
SameInput(a, b) ==
  /\ a.Duration_Original = b.Duration_Original
  /\ HasRef(a) <=> HasRef(b)
  /\ HasRef(a) /\ HasRef(b) => Ref(a) = Ref(b)

C8_DisplayString ==
  \A r \in Recs :
    IF Tag(r) \in KeepsRawTags
    THEN r.Duration_Corrected = r.Duration_Original
    ELSE OneDecimalHours(r.Duration_Corrected, r.Duration_Corrected_Hours)

\* a reference accepted over a raw string in elapsed hours
C8_Witness ==
  \E r \in Recs :
    /\ Tag(r) = "Nativo (corregido)"
    /\ r.Duration_Original.unit = <<"e", "h">>
    /\ r.Duration_Corrected = [num |-> <<10 * Ref(r), 1>>, unit |-> <<"h">>]
    /\ r.Duration_Corrected # r.Duration_Original

\* C9: correctedHours >= 0 for every record, raw and reference hours being
\* non-negative.
C9_CorrectedHoursNonNegative ==
  \A r \in Recs : r.Duration_Corrected_Hours >= 0

\* the lowest value: a task without duration and without reference
C9_Witness ==
  \E r \in Recs :
    /\ ~HasRef(r)
    /\ r.Duration_Original = [num |-> <<>>, unit |-> <<>>]
    /\ r.Duration_Corrected_Hours = 0

CarriesFactor(r) == Len(r.Duration_Source.arg) = 1

C11_FailedLoadUsesNoReference ==
  warned =>
    /\ pc # "raised"
    /\ \A r \in Recs :
         /\ ~HasRef(r)
         /\ Tag(r) \in {"MPXJ", "MPXJ corregido (x24)"}

Has(l, e) == \E i \in DOMAIN l : l[i] = e
Times(l, e) == Cardinality({i \in DOMAIN l : l[i] = e})
Before(l, a, b) == \E i, j \in DOMAIN l : i < j /\ l[i] = a /\ l[j] = b
ArgparseMains == {"corrected_converter", "mpp_to_xlsx"}

\* C12: a run of corrected_converter or mpp_to_xlsx ends with exit code 0
\* exactly when read, correction and export all succeeded on at least one
\* task, and with exit code 1 when the input file is missing, when no task
\* was parsed, or when read, correction or export raised.
C12_ExitCodes ==
  (pc = "exited" /\ converter \in ArgparseMains) =>
    /\ exit_code \in {0, 1}
    /\ exit_code = 0 <=>
         /\ Has(log, "read") /\ Has(log, "returned") /\ Has(log, "exported")
         /\ Len(tasks_data) >= 1
         /\ exc = "none"
    /\ (\/ Has(log, "input_missing")
        \/ Has(log, "returned") /\ tasks_data = <<>>
        \/ exc # "none") => exit_code = 1

\* a run that read several tasks and failed in the export
C12_Witness ==
  /\ pc = "exited"
  /\ converter = "corrected_converter"
  /\ Len(tasks_data) >= 2
  /\ exc = "ExportError"
  /\ exit_code = 1

\* C13: on every exit path the JVM started by the run is shut down exactly
\* once before the process ends, and a JVM that was not started is never
\* shut down.
C13_JvmReleasedOnce ==
  /\ Times(log, "jvm_shutdown") <= Times(log, "jvm_start")
  /\ Times(log, "jvm_start") <= 1
  /\ Has(log, "jvm_shutdown") => Before(log, "jvm_start", "jvm_shutdown")
  /\ pc = "exited" =>
       /\ Times(log, "jvm_shutdown") = Times(log, "jvm_start")
       /\ jvm # "on"

\* the zero-task exit: sys.exit(1) inside the try still releases the JVM
C13_Witness ==
  /\ pc = "exited"
  /\ tasks_data = <<>>
  /\ Has(log, "returned")
  /\ exit_code = 1
  /\ Times(log, "jvm_start") = 1
  /\ Times(log, "jvm_shutdown") = 1
  /\ jvm = "shut"

RECURSIVE SumOver(_, _)
\* the sum of one column over a set of rows
SumOver(rows, col) ==
  IF rows = {} THEN 0
  ELSE LET row == CHOOSE x \in rows : TRUE
       IN row[col] + SumOver(rows \ {row}, col)

\* C19: export is invoked at most once in a run, and only after the read
\* stage has returned a non-empty task list; a run whose input is missing,
\* whose read failed or that parsed no task never invokes export.
C19_ExportOnceAfterRead ==
  /\ Times(log, "export") <= 1
  /\ Has(log, "export") =>
       /\ Before(log, "returned", "export")
       /\ Len(tasks_data) >= 1
  /\ (\/ Has(log, "input_missing")
      \/ exc \in {"SetupError", "ReadError"}
      \/ Has(log, "returned") /\ tasks_data = <<>>) => ~Has(log, "export")

\* a finished run of each kind: one that exported once, seen at its end
C19_Witness ==
  /\ pc = "exited"
  /\ converter = "ms_project_converter"
  /\ Times(log, "export") = 1
  /\ Before(log, "returned", "export")
  /\ Len(tasks_data) >= 1

\* C15: in the correction summary of a non-empty set of records the
\* per-tag counts add up to the number of records and the per-tag
\* percentages add up to 100% within the rounding of one decimal per row
\* (0.05 percentage points for each row).
C15_SummaryAddsUp ==
  Has(log, "exported") /\ converter = "corrected_converter" =>
    LET rows == summary_data.per_source
        counts == SumOver(rows, "Count")
        pcts == SumOver(rows, "Percentage")
    IN /\ counts = Len(tasks_data)
       /\ summary_data.total_tasks = Len(tasks_data)
       /\ 2 * (pcts - 1000) <= Cardinality(rows)
       /\ 2 * (1000 - pcts) <= Cardinality(rows)

\* three tags with one record each: 33.3% three times, 99.9% in all
C15_Witness ==
  /\ Has(log, "exported")
  /\ converter = "corrected_converter"
  /\ Cardinality(summary_data.per_source) = 3
  /\ \A row \in summary_data.per_source : row.Count = 1 /\ row.Percentage = 333

\* C16: while the reference table is loaded, native_data holds exactly the
\* ids of the rows read so far, one entry per id, and the entry of an id is
\* the last row read for it.
C16_LastRowWins ==
  pc = "load" =>
    /\ DOMAIN native_data = {df_native[i].ID : i \in DOMAIN df_native}
    /\ \A i \in DOMAIN df_native :
         (\A j \in DOMAIN df_native : j > i => df_native[j].ID # df_native[i].ID)
           => native_data[df_native[i].ID].native_hours = df_native[i].hours

\* two rows for one id with different hours: the second is kept
C16_Witness ==
  /\ pc = "load"
  /\ Len(df_native) = 2
  /\ df_native[1].ID = df_native[2].ID
  /\ df_native[1].hours # df_native[2].hours
  /\ native_data[df_native[2].ID].native_hours = df_native[2].hours

\* the number a raw duration string shows (whole in this model), 0 for ''
ShownValue(str) == IF str.num = <<>> THEN 0 ELSE str.num[1] \div 10
HasEH(str) == \E i \in 1..(Len(str.unit) - 1) : str.unit[i] = "e" /\ str.unit[i + 1] = "h"
HasD(str) == \E i \in DOMAIN str.unit : str.unit[i] = "d"

\* C18: rawHours is the duration value when the raw string contains 'eh',
\* else 24 times the value when it contains 'd', and 0 in every other unit
\* (hours, weeks, months) and for an absent duration.
C18_RawHoursDerivation ==
  \A r \in Recs :
    LET o == r.Duration_Original
    IN Raw(r) = IF HasEH(o) THEN ShownValue(o)
                ELSE IF HasD(o) THEN 24 * ShownValue(o)
                ELSE 0

\* 40 working hours count as 0 raw hours
C18_Witness ==
  \E r \in Recs :
    /\ r.Duration_Original = [num |-> <<400, 1>>, unit |-> <<"h">>]
    /\ Raw(r) = 0

\* the token the claim describes for one relation
IdAbsent(relation) == relation[1] = <<>> \/ relation[1][1] = <<>>
LagValueZero(relation) == relation[3] = <<>> \/ relation[3][1] = 0
ClaimedToken(relation) ==
  (IF IdAbsent(relation) THEN <<"Unknown">> ELSE IntText(relation[1][1][1]))
  \o (IF relation[2] = <<>> THEN <<"FS">> ELSE relation[2])
  \o (IF LagValueZero(relation) THEN <<>>
      ELSE (IF relation[3][1] > 0 THEN <<"+">> ELSE <<>>)
           \o IntText(IntOfHalves(relation[3][1]))
           \o (IF relation[3][2] = <<>> THEN <<"d">> ELSE relation[3][2]))

RECURSIVE ClaimedText(_)
ClaimedText(relations) ==
  IF relations = <<>> THEN <<>>
  ELSE IF Len(relations) = 1 THEN ClaimedToken(relations[1])
  ELSE ClaimedToken(relations[1]) \o <<"; ">> \o ClaimedText(Tail(relations))

\* C14: for every sequence of relations each of the three
\* format_predecessors returns the tokens '{id}{type}{lagToken}' in input
\* order joined with '; ': id is the predecessor id or 'Unknown' when absent,
\* type defaults to 'FS', lagToken is empty exactly when the lag is 0 and
\* otherwise the integer lag, with '+' when positive, followed by its unit;
\* no relation gives ''.
C14_PredecessorText ==
  pc = "fmt_done" => fmt_result = ClaimedText(predecessors)

\* The same, for relations whose predecessor task, when there is one, has an id.
C14_WhenTasksHaveIds ==
  (pc = "fmt_done" /\ \A i \in DOMAIN predecessors : predecessors[i][1] # <<<<>>>>)
    => fmt_result = ClaimedText(predecessors)

\* the documented examples: (5, SS, +2, d) and (absent, FS, 0)
C14_Examples ==
  /\ pc = "fmt_done"
  /\ predecessors = << <<<<<<5>>>>, <<"SS">>, <<4, <<"d">>>>>>, <<<<>>, <<>>, <<>>>> >>
  /\ fmt_result = <<"5", "SS", "+", "2", "d", "; ", "Unknown", "FS">>

\* the index labels of the rows of a frame
IndexLabels(frame) == {frame.rows[i].index : i \in DOMAIN frame.rows}
LacksBoth(row) == row.cells["Start"] = "NaN" /\ row.cells["Finish"] = "NaN"
LacksEither(row) == row.cells["Start"] = "NaN" \/ row.cells["Finish"] = "NaN"

\* C17: in prepare_gantt_data, for the corrected and for the plain schema, a
\* row of the sheet that has neither a Start nor a Finish value is not in the
\* data that is returned.
C17_UndatedRowsExcluded ==
  pc = "viz_done" =>
    \A i \in DOMAIN sheet.rows :
      LacksBoth(sheet.rows[i]) => sheet.rows[i].index \notin IndexLabels(gantt)

\* a corrected sheet with a dated and an undated row has been prepared
C17_Witness ==
  /\ pc = "viz_done"
  /\ "Duration_Corrected" \in sheet.columns
  /\ \E i \in DOMAIN sheet.rows : LacksBoth(sheet.rows[i])
  /\ gantt.rows # <<>>
  /\ "Duration" \in gantt.columns

\* the same for a plain sheet
C17_WitnessPlain ==
  /\ pc = "viz_done"
  /\ "Duration_Corrected" \notin sheet.columns
  /\ \E i \in DOMAIN sheet.rows : LacksBoth(sheet.rows[i])
  /\ gantt.rows # <<>>

\* The returned rows are the sheet rows that have both values, in order.
C17_ExactlyTheDatedRows ==
  pc = "viz_done" =>
    /\ IndexLabels(gantt) = {sheet.rows[i].index : i \in {j \in DOMAIN sheet.rows :
                                                          ~LacksEither(sheet.rows[j])}}
    /\ \A i, j \in DOMAIN gantt.rows : i < j => gantt.rows[i].index < gantt.rows[j].index

====
